---- MODULE Spec2Model ----
(***************************************************************************)
(* Model of brightness.py: the timed_range generator, the                  *)
(* AcpiBrightnessControl handle over the brightness file, and main().      *)
(*                                                                         *)
(* Time is counted in clock ticks; a duration is a number of ticks.  The   *)
(* floating point values of timed_range are kept as exact fractions: a     *)
(* value is its numerator over the denominator Den(duration).  The         *)
(* brightness file is the sequence of characters the handle reads and      *)
(* overwrites; the file outlives a process, so a run of main() starts from *)
(* whatever the runs before it left there.                                 *)
(***************************************************************************)
EXTENDS Integers, Sequences, FiniteSets, TLC

\* ---- bounds ----
DeviceMax == 10
MaxOperand == 11
MaxDuration == 3
MaxStep == 2
MaxBelowZero == 2

\* ---- values of the inputs ----
\* the lowest target a run asks for
MinTarget == 0 - MaxBelowZero
\* an optional value: None is <<>>, a value v is <<v>>
None == <<>>
Some(v) == <<v>>
NoName == "unset"
Actions == {"show", "max", "set", "inc", "dec"}
Operands == {None} \cup {Some(n) : n \in {0, 3, MaxOperand}}
Durations == 0..MaxDuration
EasingNames == {"linear", "easeOutCubic", "bogus"}
Registry == {"linear", "easeOutCubic"}

\* ---- text of the brightness file ----
DigitChar == <<"0", "1", "2", "3", "4", "5", "6", "7", "8", "9">>

DigitVal(c) == CHOOSE d \in 0..9 : DigitChar[d + 1] = c

RECURSIVE NatStr(_)
NatStr(n) == IF n < 10 THEN <<DigitChar[n + 1]>>
             ELSE NatStr(n \div 10) \o <<DigitChar[(n % 10) + 1]>>

\* str(n) of a Python int
Str(n) == IF n < 0 THEN <<"-">> \o NatStr(0 - n) ELSE NatStr(n)

IsSpace(c) == c = "\n"

RECURSIVE LStrip(_)
LStrip(s) == IF s # <<>> /\ IsSpace(Head(s)) THEN LStrip(Tail(s)) ELSE s

RECURSIVE RStrip(_)
RStrip(s) == IF s # <<>> /\ IsSpace(s[Len(s)]) THEN RStrip(SubSeq(s, 1, Len(s) - 1)) ELSE s

\* str.strip()
Strip(s) == LStrip(RStrip(s))

RECURSIVE NatVal(_)
NatVal(s) == IF s = <<>> THEN 0
             ELSE 10 * NatVal(SubSeq(s, 1, Len(s) - 1)) + DigitVal(s[Len(s)])

IsDigits(s) == s # <<>> /\ \A k \in 1..Len(s) : \E d \in 0..9 : DigitChar[d + 1] = s[k]

\* the texts int() accepts among those the file can hold
IsIntText(s) == IF s # <<>> /\ Head(s) = "-" THEN IsDigits(Tail(s)) ELSE IsDigits(s)

\* int(s) of a decimal text
ParseInt(s) == IF Head(s) = "-" THEN 0 - NatVal(Tail(s)) ELSE NatVal(s)

\* seek(0); read(): the whole text of the file
FileRead(f) == f

\* seek(0); write(text): the text replaces the characters at the front of
\* the file, what lies behind them stays (the file is never truncated)
FileWrite(f, text) == text \o SubSeq(f, Len(text) + 1, Len(f))

\* the brightness getter
Brightness(f) == ParseInt(Strip(FileRead(f)))

\* ---- the arithmetic of timed_range ----
Den(d) == d * d * d

\* the easing curves, as the numerator over Den(d) at normalized time k/d
linear(k, d) == k * d * d

easeOutCubic(k, d) == (k - d) * (k - d) * (k - d) + d * d * d

Ease(f, k, d) == IF f = "linear" THEN linear(k, d) ELSE easeOutCubic(k, d)

\* the loop test taken as t_scaled <= 1
TScaledBelowOne_Inclusive(tt, d) == d - tt >= 0

\* t_scaled = 1 - (duration - t) / duration, compared with 1
TScaledBelowOne(tt, d) == d - tt > 0

\* the span taken the wrong way round
YSpan_Reversed(st, sp) == st - sp

\* y_span = stop - start
YSpan(st, sp) == sp - st

\* easing_func(t_scaled) * y_span + start, as the numerator over Den(d)
ValueNum(f, tt, d, span, st) == Ease(f, tt, d) * span + st * Den(d)

\* int(x) of a fraction: truncation toward zero
Trunc(num, den) == IF num >= 0 THEN num \div den ELSE 0 - ((0 - num) \div den)

\* the range check made after the truncation to an integer
ExceedsMax_AfterInt(num, den, m) == Trunc(num, den) > m

\* new_brightness > self.max
ExceedsMax(num, den, m) == num > m * den

\* ---- the state ----
VARIABLES
    file,            \* text of the brightness file
    handle,          \* "Closed" or "Open": brightness_file of the control object
    max,             \* self._max, None before open()
    pc,              \* position of the process in main()
    args,            \* the parsed command line
    easing_func,     \* the curve main() resolved
    new_brightness,  \* the target main() computed
    g,               \* the timed_range generator of the running animate()
    now,             \* the wall clock, in ticks since the process started
    err,             \* the exception that is propagating, "none" if none
    exit_code,       \* exit status of the process, None while it runs
    stdout,          \* what show / max printed, None if nothing
    opens,           \* number of open() calls of this run
    closes,          \* number of close() calls of this run
    writes,          \* the integers this run wrote to the file, in order
    yields           \* the values the generator yielded: [num, sample]

vars == <<file, handle, max, pc, args, easing_func, new_brightness, g, now,
          err, exit_code, stdout, opens, closes, writes, yields>>

NoArgs == [action |-> NoName, operand |-> None, duration |-> 0,
           easing_function |-> NoName]

\* the generator before animate() creates it
NoGen == [state |-> "none", start |-> 0, stop |-> 0, duration |-> 0,
          easing_func |-> NoName, t_start |-> 0, y_span |-> 0, t |-> 0,
          i |-> 0, used |-> 0, nsamples |-> 0, held |-> 0]

\* the texts a backlight device shows: a brightness, with or without the
\* newline that ends a sysfs attribute
InitialFiles == {Str(b) : b \in 0..DeviceMax} \cup {Str(b) \o <<"\n">> : b \in 0..DeviceMax}

\* ticks that pass while the generator runs up to its next clock sample
StepTicks == 0..MaxStep

\* ticks that pass in time.sleep(0.001)
SleepTicks == 1..MaxStep

AnimatedActions == {"set", "inc", "dec"}

Init ==
    /\ file \in InitialFiles
    /\ handle = "Closed"
    /\ max = None
    /\ pc = "start"
    /\ args = NoArgs
    /\ easing_func = NoName
    /\ new_brightness = None
    /\ g = NoGen
    /\ now = 0
    /\ err = "none"
    /\ exit_code = None
    /\ stdout = None
    /\ opens = 0
    /\ closes = 0
    /\ writes = <<>>
    /\ yields = <<>>

\* parser.parse_args(): the command line of this run
ParseArgs ==
    /\ pc = "start"
    /\ \E a \in Actions, o \in Operands, d \in Durations, e \in EasingNames :
        /\ (a = "dec" /\ o # None) => Brightness(file) - o[1] >= MinTarget
        /\ args' = [action |-> a, operand |-> o, duration |-> d, easing_function |-> e]
    /\ pc' = "enter"
    /\ UNCHANGED <<file, handle, max, easing_func, new_brightness, g, now, err,
                   exit_code, stdout, opens, closes, writes, yields>>

\* with AcpiBrightnessControl() as control: __enter__ calls open()
Enter ==
    /\ pc = "enter"
    /\ max' = Some(DeviceMax)
    /\ handle' = "Open"
    /\ opens' = opens + 1
    /\ pc' = "body"
    /\ UNCHANGED <<file, args, easing_func, new_brightness, g, now, err,
                   exit_code, stdout, closes, writes, yields>>

\* action show: print(control.brightness)
Show ==
    /\ pc = "body"
    /\ args.action = "show"
    /\ stdout' = Some(Brightness(file))
    /\ pc' = "exit"
    /\ UNCHANGED <<file, handle, max, args, easing_func, new_brightness, g, now,
                   err, exit_code, opens, closes, writes, yields>>

\* action max: print(control.max)
ShowMax ==
    /\ pc = "body"
    /\ args.action = "max"
    /\ stdout' = max
    /\ pc' = "exit"
    /\ UNCHANGED <<file, handle, max, args, easing_func, new_brightness, g, now,
                   err, exit_code, opens, closes, writes, yields>>

\* not args.operand: None and 0 are both falsy
OperandMissing(o) == o = None \/ o = Some(0)

\* the usage error ending the process at once, without unwinding the with block
UsageError_NoCleanup ==
    /\ pc = "body"
    /\ args.action \in AnimatedActions
    /\ OperandMissing(args.operand)
    /\ err' = "SystemExit"
    /\ exit_code' = Some(1)
    /\ pc' = "done"
    /\ UNCHANGED <<file, handle, max, args, easing_func, new_brightness, g, now,
                   stdout, opens, closes, writes, yields>>

\* the operand check of set, inc and dec: usage message, sys.exit(1)
UsageError ==
    /\ pc = "body"
    /\ args.action \in AnimatedActions
    /\ OperandMissing(args.operand)
    /\ err' = "SystemExit"
    /\ pc' = "exit"
    /\ UNCHANGED <<file, handle, max, args, easing_func, new_brightness, g, now,
                   exit_code, stdout, opens, closes, writes, yields>>

\* hasattr(pytweening, name): the named curve, or easeOutCubic with a warning
ResolveEasing ==
    /\ pc = "body"
    /\ args.action \in AnimatedActions
    /\ ~OperandMissing(args.operand)
    /\ easing_func' = IF args.easing_function \in Registry
                      THEN args.easing_function ELSE "easeOutCubic"
    /\ pc' = "target"
    /\ UNCHANGED <<file, handle, max, args, new_brightness, g, now, err,
                   exit_code, stdout, opens, closes, writes, yields>>

\* the target of set, inc and dec
Target(a, cur, o) == IF a = "set" THEN o
                     ELSE IF a = "inc" THEN cur + o
                     ELSE cur - o

\* new_brightness = control.brightness, adjusted by the action
ComputeTarget ==
    /\ pc = "target"
    /\ new_brightness' = Some(Target(args.action, Brightness(file), args.operand[1]))
    /\ pc' = "animate"
    /\ UNCHANGED <<file, handle, max, args, easing_func, g, now, err,
                   exit_code, stdout, opens, closes, writes, yields>>

\* animate(): timed_range(self.brightness, new_brightness, duration, easing_func)
\* creates the generator; its body has not started
Animate ==
    /\ pc = "animate"
    /\ g' = [NoGen EXCEPT !.state = "created",
                          !.start = Brightness(file),
                          !.stop = new_brightness[1],
                          !.duration = args.duration,
                          !.easing_func = easing_func,
                          !.held = Brightness(file)]
    /\ pc' = "next"
    /\ UNCHANGED <<file, handle, max, args, easing_func, new_brightness, now, err,
                   exit_code, stdout, opens, closes, writes, yields>>

\* first next(): t_start, y_span, the first clock sample and t_scaled; a
\* duration of 0 divides by zero
GenStart ==
    /\ pc = "next"
    /\ g.state = "created"
    /\ IF g.duration = 0
       THEN /\ err' = "ZeroDivisionError"
            /\ g' = [g EXCEPT !.state = "finished", !.t_start = now,
                              !.y_span = YSpan(g.start, g.stop), !.nsamples = 1]
            /\ pc' = "exit"
            /\ now' = now
       ELSE /\ \E d \in StepTicks :
                /\ now' = now + d
                /\ g' = [g EXCEPT !.state = "entered", !.t_start = now,
                                  !.y_span = YSpan(g.start, g.stop),
                                  !.t = now' - now, !.nsamples = 1]
            /\ pc' = "next"
            /\ err' = err
    /\ UNCHANGED <<file, handle, max, args, easing_func, new_brightness,
                   exit_code, stdout, opens, closes, writes, yields>>

\* the while loop: while t_scaled < 1, compute i, sample the clock, yield i;
\* otherwise the generator is exhausted and animate() returns
GenLoop ==
    /\ pc = "next"
    /\ g.state \in {"entered", "suspended"}
    /\ IF TScaledBelowOne(g.t, g.duration)
       THEN \E d \in StepTicks :
              LET v == ValueNum(g.easing_func, g.t, g.duration, g.y_span, g.start)
              IN /\ now' = now + d
                 /\ g' = [g EXCEPT !.state = "suspended", !.i = v, !.used = g.nsamples,
                                   !.t = now' - g.t_start,
                                   !.nsamples = g.nsamples + 1]
                 /\ yields' = Append(yields, [num |-> v, t |-> g.t])
                 /\ pc' = "yielded"
       ELSE /\ g' = [g EXCEPT !.state = "finished"]
            /\ pc' = "exit"
            /\ UNCHANGED <<now, yields>>
    /\ UNCHANGED <<file, handle, max, args, easing_func, new_brightness, err,
                   exit_code, stdout, opens, closes, writes>>

\* self.brightness = i: the setter
SetBrightness ==
    /\ pc = "yielded"
    /\ IF ExceedsMax(g.i, Den(g.duration), max[1])
       THEN /\ err' = "ValueError"
            /\ pc' = "exit"
            /\ UNCHANGED <<file, writes, g>>
       ELSE LET v == Trunc(g.i, Den(g.duration))
            IN /\ file' = FileWrite(file, Str(v))
               /\ writes' = Append(writes, [value |-> v, used |-> g.used,
                                            latest |-> g.nsamples, t |-> yields[Len(yields)].t])
               /\ g' = [g EXCEPT !.held = v]
               /\ pc' = "sleep"
               /\ err' = err
    /\ UNCHANGED <<handle, max, args, easing_func, new_brightness, now,
                   exit_code, stdout, opens, closes, yields>>

\* time.sleep(0.001)
Sleep ==
    /\ pc = "sleep"
    /\ \E d \in SleepTicks : now' = now + d
    /\ pc' = "next"
    /\ UNCHANGED <<file, handle, max, args, easing_func, new_brightness, g, err,
                   exit_code, stdout, opens, closes, writes, yields>>

\* __exit__ calls close(); the process ends, with status 1 when an
\* exception leaves main()
Exit ==
    /\ pc = "exit"
    /\ handle' = "Closed"
    /\ closes' = closes + 1
    /\ exit_code' = Some(IF err = "none" THEN 0 ELSE 1)
    /\ pc' = "done"
    /\ UNCHANGED <<file, max, args, easing_func, new_brightness, g, now, err,
                   stdout, opens, writes, yields>>

\* the command is run again: a new process over the same brightness file
NextRun ==
    /\ pc = "done"
    /\ pc' = "start"
    /\ handle' = "Closed"
    /\ max' = None
    /\ args' = NoArgs
    /\ easing_func' = NoName
    /\ new_brightness' = None
    /\ g' = NoGen
    /\ now' = 0
    /\ err' = "none"
    /\ exit_code' = None
    /\ stdout' = None
    /\ opens' = 0
    /\ closes' = 0
    /\ writes' = <<>>
    /\ yields' = <<>>
    /\ UNCHANGED file

Next ==
    \/ ParseArgs
    \/ Enter
    \/ Show
    \/ ShowMax
    \/ UsageError
    \/ ResolveEasing
    \/ ComputeTarget
    \/ Animate
    \/ GenStart
    \/ GenLoop
    \/ SetBrightness
    \/ Sleep
    \/ Exit
    \/ NextRun

Spec == Init /\ [][Next]_vars

\* one run of main(), from the command line to the end of the process
Run ==
    \/ ParseArgs
    \/ Enter
    \/ Show
    \/ ShowMax
    \/ UsageError
    \/ ResolveEasing
    \/ ComputeTarget
    \/ Animate
    \/ GenStart
    \/ GenLoop
    \/ SetBrightness
    \/ Sleep
    \/ Exit

\* one run of a process that takes its next step whenever it has one
LiveSpec == Init /\ [][Run]_vars /\ WF_vars(Run)

\* the file always holds a text int() accepts
FileIsIntText == IsIntText(Strip(file))

\* ---- properties ----
Abs(x) == IF x < 0 THEN 0 - x ELSE x

Between(lo, x, hi) == (lo <= x /\ x <= hi) \/ (hi <= x /\ x <= lo)

LastWrite == writes[Len(writes)]

LastYield == yields[Len(yields)]

\* C1: a set of a value above max raises the range error and writes nothing:
\* the file is after the failed call what it was before it
C1_SetAboveMaxFails ==
    [][(pc = "yielded" /\ g.i > max[1] * Den(g.duration))
        => (err' = "ValueError" /\ pc' = "exit" /\ file' = file /\ writes' = writes)]_vars

\* a set of a value above max has failed after earlier sets succeeded
C1_Witness ==
    /\ pc = "exit"
    /\ err = "ValueError"
    /\ writes # <<>>
    /\ g.i > max[1] * Den(g.duration)

\* C2: right after a successful set of an integer v, get brightness returns v
C2_RoundTrip ==
    (pc = "sleep" /\ g.i = LastWrite.value * Den(g.duration))
        => Brightness(file) = LastWrite.value

\* C3: with a duration > 0 animate ends, the generator yields at most
\* duration + 1 values, and a generator resumed with t_scaled >= 1 yields
\* nothing more and is exhausted
C3_Terminates ==
    /\ (pc = "animate" /\ args.duration > 0) ~> (pc = "exit")
    /\ [](Len(yields) <= g.duration + 1)
    /\ [][(pc = "next" /\ g.state = "suspended" /\ g.t >= g.duration)
           => (pc' = "exit" /\ g'.state = "finished" /\ yields' = yields
               /\ file' = file)]_vars

\* animate has returned after the generator was resumed past the duration
C3_Witness ==
    /\ pc = "exit"
    /\ g.state = "finished"
    /\ err = "none"
    /\ Len(yields) >= 2
    /\ g.t > g.duration

\* C4: when animate returns without error towards a target <= max, the
\* brightness read from the device is the target
C4_Converges ==
    (pc = "exit" /\ g.state = "finished" /\ err = "none"
     /\ new_brightness[1] <= max[1])
        => Brightness(file) = new_brightness[1]

\* the linear value at clock sample tt, as the numerator over Den(duration)
C5_LinearAt(tt) ==
    tt * g.duration * g.duration * (g.stop - g.start) + g.start * Den(g.duration)

C5_MonotoneBetween ==
    /\ \A k \in 1..Len(yields) :
         Between(g.start * Den(g.duration), yields[k].num, g.stop * Den(g.duration))
    /\ \A k \in 1..(Len(yields) - 1) :
         IF g.start <= g.stop THEN yields[k].num <= yields[k + 1].num
                              ELSE yields[k].num >= yields[k + 1].num

C5_Linear == g.state \in {"suspended", "finished"} /\ g.easing_func = "linear" /\ g.duration > 0

\* C5 as amended: with the linear curve the yielded values are monotonic and
\* lie between start and stop, and the last one is from stop at most as far
\* as the last step, from its clock sample to the sample that ended the
\* loop, would have moved it
C5_LinearMonotoneAtMostOneStep ==
    C5_Linear =>
        /\ C5_MonotoneBetween
        /\ (g.state = "finished" /\ yields # <<>>)
             => Abs(g.stop * Den(g.duration) - LastYield.num)
                  <= Abs(C5_LinearAt(g.t) - LastYield.num)

\* C5 as stated: the last value is from stop by less than that step
C5_LinearMonotoneLessThanOneStep ==
    C5_Linear =>
        /\ C5_MonotoneBetween
        /\ (g.state = "finished" /\ yields # <<>>)
             => Abs(g.stop * Den(g.duration) - LastYield.num)
                  < Abs(C5_LinearAt(g.t) - LastYield.num)

\* a linear animation over distinct start and stop has ended after three yields
C5_Witness ==
    /\ C5_Linear
    /\ g.state = "finished"
    /\ g.start # g.stop
    /\ Len(yields) >= 3

\* C6: when a range error ends animate, the device reads the value of the
\* last successful write, or the value from before the animation if there
\* was none
C6_HoldsLastWritten ==
    (pc = "exit" /\ err = "ValueError") => Brightness(file) = g.held

\* C7: while the handle is open the brightness read from the device is in
\* [0, max]
C7_InRange ==
    handle = "Open" => (0 <= Brightness(file) /\ Brightness(file) <= max[1])

\* the positions of main() at which the next step reads or writes through
\* the handle
AccessPcs == {"target", "animate", "next", "yielded"}

\* C8: the handle goes Closed -> Open -> Closed and nothing else, every
\* get, set and animate happens while it is open, and a process that opened
\* the handle has closed it exactly once when it ends
C8_Lifecycle ==
    /\ []((pc \in AccessPcs \/ (pc = "body" /\ args.action = "show")) => handle = "Open")
    /\ [](opens <= 1 /\ closes <= opens)
    /\ []((pc = "done" /\ opens = 1) => (closes = 1 /\ handle = "Closed"))
    /\ [][handle' # handle
           => \/ (handle = "Closed" /\ handle' = "Open" /\ closes = 0)
              \/ (handle = "Open" /\ handle' = "Closed")]_vars

\* a process ended by a range error during animate has closed the handle
C8_Witness ==
    /\ pc = "done"
    /\ err = "ValueError"
    /\ opens = 1
    /\ closes = 1
    /\ handle = "Closed"

\* C9: set, inc and dec end in the usage error exactly when the operand is
\* absent, without a write; with an operand the run animates toward the
\* target computed from it
C9_UsageErrorIffAbsent ==
    (pc = "exit" /\ args.action \in AnimatedActions)
        => /\ (err = "SystemExit") <=> (args.operand = None)
           /\ err = "SystemExit" => writes = <<>>
           /\ args.operand # None
                => (g.state # "none" /\ g.stop = new_brightness[1])

\* C10: the writes of one animate are computed from strictly increasing
\* clock samples, and a value is written while the sample it was computed
\* from is still the latest the generator has taken
C10_FreshSamples ==
    /\ pc = "yielded" => g.used = g.nsamples
    /\ \A k \in 1..(Len(writes) - 1) : writes[k].t < writes[k + 1].t

====
